---- MODULE Spec2Model ----
(***************************************************************************)
(* Golf Handicap Tracker (V021/script.js): the in-memory round list, the   *)
(* remote sheet behind SheetDB, the add / delete / toggle / sort / load    *)
(* handlers and the handicap and statistics computations.                  *)
(*                                                                         *)
(* Numbers.  JavaScript numbers are modelled exactly, as fixed-point       *)
(* integers or fractions:                                                  *)
(*   rating        tenths           (71.2  is 712)                         *)
(*   differential  hundredths       (17.00 is 1700), as stored by          *)
(*                 parseFloat(x.toFixed(2))                                *)
(*   a fraction    [num, den], den > 0, for the results of "/" and "*0.96" *)
(*   toFixed(1)    an integer number of tenths                             *)
(* Binary floating point error (below 1e-12 for the magnitudes here) is    *)
(* not modelled.                                                           *)
(***************************************************************************)
EXTENDS Integers, Sequences, FiniteSets, TLC

VARIABLES
  rounds,       \* let rounds = []            (script.js:13)
  currentSort,  \* let currentSort            (script.js:14-17)
  display,      \* textContent of the handicap and statistics elements
  results,      \* what the latest calculateHandicap(false) / (true) returned
  sheet,        \* rows of the remote sheet, as SheetDB returns them
  localBackup,  \* localStorage item 'golfRounds': <<>> when absent, else <<list>>
  pending,      \* handlers suspended at an await: the remote calls in flight
  now,          \* Date.now()
  budget,       \* user operations still to be explored
  lastAlert,    \* the message alert() showed in the latest step, "" if none
  deleted       \* history: the ids for which a deleteRound has succeeded

vars == <<rounds, currentSort, display, results, sheet, localBackup, pending,
          now, budget, lastAlert, deleted>>

----------------------------------------------------------------------------
(* Program constants *)

MAX_RETRIES == 3

----------------------------------------------------------------------------
(* Arithmetic helpers *)

Abs(x) == IF x < 0 THEN -x ELSE x

Min2(a, b) == IF a < b THEN a ELSE b

\* Math.floor(a / b) for b > 0.
Floor(a, b) == a \div b

\* a / b (b > 0) rounded to the nearest integer, halves away from zero:
\* what Number.prototype.toFixed does to the digit it keeps.
RoundDiv(a, b) ==
  IF a >= 0 THEN (2 * a + b) \div (2 * b)
            ELSE -((2 * (-a) + b) \div (2 * b))

Frac(n, d) == [num |-> n, den |-> d]

\* x.toFixed(1) of the fraction x, whose unit is hundredths: tenths.
ToFixed1OfHundredths(x) == RoundDiv(x.num, x.den * 10)

\* x.toFixed(1) of the fraction x, whose unit is one: tenths.
ToFixed1(x) == RoundDiv(x.num * 10, x.den)

----------------------------------------------------------------------------
(* Sequences *)

Range(s) == {s[i] : i \in 1..Len(s)}

\* Array.prototype.slice(from, to), zero-based, end exclusive
Slice(s, from, to) == SubSeq(s, from + 1, Min2(to, Len(s)))

\* Array.prototype.reduce((sum, x) => sum + x, 0) over a sequence of numbers
RECURSIVE SumSeq(_)
SumSeq(s) == IF s = <<>> THEN 0 ELSE Head(s) + SumSeq(Tail(s))

\* Math.min(...s) for a non-empty sequence of numbers
RECURSIVE MinSeq(_)
MinSeq(s) ==
  IF Len(s) = 1 THEN s[1] ELSE Min2(Head(s), MinSeq(Tail(s)))

\* Array.prototype.sort with a comparator that orders by an integer key,
\* ascending: the sort is stable (ECMAScript 2019), so an element lands after
\* every element with a smaller key and after the earlier elements with its key.
StableSortByKey(s, key) ==
  LET n == Len(s)
      k == key \o <<>>
      pos == [i \in 1..n |->
                Cardinality({j \in 1..n : k[j] < k[i]})
                + Cardinality({j \in 1..i : k[j] = k[i]})] \o <<>>
  IN  [p \in 1..n |-> s[CHOOSE i \in 1..n : pos[i] = p]] \o <<>>

----------------------------------------------------------------------------
(* Values with no number in them *)

\* null, as calculateHandicap returns it
Null == [isNull |-> TRUE]

\* textContent of an element: fixed text, an integer, a toFixed(1) number,
\* a signed toFixed(1) number, "k of n eligible"
Text(t) == [text |-> t]
Dashes == Text("--")
IntText(v) == [int |-> v]
TenthsText(v) == [tenths |-> v]
SignedTenthsText(v, plus) == [tenths |-> v, plus |-> plus]
UsedOfText(k, n) == [used |-> k, of |-> n]

----------------------------------------------------------------------------
(* calculateHandicap *)

\* The selector as calculateHandicap would be were one of its steps written
\* differently: "unsorted" takes the first rounds of the list as it stands,
\* "table" uses the 0.4 fraction from five rounds on, "minimum" gives no
\* handicap below five eligible rounds, "everyone" counts the rounds the
\* user excluded.
calculateHandicapVariant(rs, regulationOnly, variant) ==
  LET included ==
        IF variant = "everyone" THEN rs
        ELSE SelectSeq(rs, LAMBDA r : r.includeInHandicap)
      handicapRounds ==
        IF regulationOnly
        THEN SelectSeq(included, LAMBDA r : r.courseType = "regulation")
        ELSE included
      n == Len(handicapRounds)
      sortedRounds ==
        IF variant = "unsorted" THEN handicapRounds
        ELSE StableSortByKey(handicapRounds,
                             [i \in 1..n |-> handicapRounds[i].differential])
      roundsToUse ==
        IF n >= 20 THEN 8
        ELSE IF n >= 10 THEN Floor(n * 4, 10)
        ELSE IF n >= 5
             THEN Floor(n * (IF variant = "table" THEN 4 ELSE 3), 10)
        ELSE Min2(1, n)
      bestDifferentials == Slice(sortedRounds, 0, roundsToUse)
      total == SumSeq([i \in 1..Len(bestDifferentials) |->
                         bestDifferentials[i].differential])
  IN  IF Len(rs) = 0 \/ n = 0 \/ (n < 5 /\ variant = "minimum") THEN Null
      ELSE [isNull |-> FALSE,
            handicap |-> Frac(total * 96, roundsToUse * 100),
            roundsUsed |-> roundsToUse,
            totalHandicapRounds |-> n]

calculateHandicap_Unsorted(rs, regulationOnly) ==
  calculateHandicapVariant(rs, regulationOnly, "unsorted")

calculateHandicap_OneFraction(rs, regulationOnly) ==
  calculateHandicapVariant(rs, regulationOnly, "table")

calculateHandicap_MinimumFive(rs, regulationOnly) ==
  calculateHandicapVariant(rs, regulationOnly, "minimum")

calculateHandicap_CountsExcluded(rs, regulationOnly) ==
  calculateHandicapVariant(rs, regulationOnly, "everyone")

calculateHandicap(rs, regulationOnly) ==
  IF Len(rs) = 0 THEN Null
  ELSE
    LET included == SelectSeq(rs, LAMBDA r : r.includeInHandicap)
        handicapRounds ==
          IF regulationOnly
          THEN SelectSeq(included, LAMBDA r : r.courseType = "regulation")
          ELSE included
        n == Len(handicapRounds)
    IN  IF n = 0 THEN Null
        ELSE
          LET sortedRounds ==
                StableSortByKey(handicapRounds,
                                [i \in 1..n |-> handicapRounds[i].differential])
              roundsToUse ==
                IF n >= 20 THEN 8
                ELSE IF n >= 10 THEN Floor(n * 4, 10)
                ELSE IF n >= 5 THEN Floor(n * 3, 10)
                ELSE Min2(1, n)
              bestDifferentials == Slice(sortedRounds, 0, roundsToUse)
              avgDifferential ==
                Frac(SumSeq([i \in 1..Len(bestDifferentials) |->
                               bestDifferentials[i].differential]),
                     roundsToUse)
          IN  [isNull |-> FALSE,
               handicap |-> Frac(avgDifferential.num * 96,
                                 avgDifferential.den * 100),
               roundsUsed |-> roundsToUse,
               totalHandicapRounds |-> n]

----------------------------------------------------------------------------
(* Display *)

\* updateHandicapDisplay: one variant's two elements
HandicapTexts(result) ==
  IF result.isNull
  THEN [handicap |-> Dashes, roundsUsed |-> Text("0")]
  ELSE [handicap |-> TenthsText(ToFixed1OfHundredths(result.handicap)),
        roundsUsed |-> UsedOfText(result.roundsUsed,
                                  result.totalHandicapRounds)]

\* The body shared by updateAllCoursesStats and updateRegulationStats, on the
\* list the caller filtered.
StatsTexts(filtered) ==
  LET n == Len(filtered)
      adj(s) == [i \in 1..Len(s) |-> s[i].adjScore] \o <<>>
  IN  IF n > 0
      THEN
        LET avgScoreValue == Frac(SumSeq(adj(filtered)), n)
            bestScoreValue == MinSeq(adj(filtered))
            recent5 == Slice(filtered, 0, 5)
            previous5 == Slice(filtered, 5, 10)
            trend == Frac(SumSeq(adj(recent5)) - SumSeq(adj(previous5)), 5)
        IN  [total |-> IntText(n),
             avg |-> TenthsText(ToFixed1(avgScoreValue)),
             best |-> IntText(bestScoreValue),
             trend |-> IF n >= 10
                       THEN SignedTenthsText(ToFixed1(trend), trend.num > 0)
                       ELSE Dashes]
      ELSE [total |-> IntText(n), avg |-> Dashes, best |-> Dashes,
            trend |-> Dashes]

\* The all-courses view showing zeros for an empty selection
updateAllCoursesStats_Zeros(rs) ==
  LET includedRounds == SelectSeq(rs, LAMBDA r : r.includeInHandicap)
  IN  IF Len(includedRounds) = 0
      THEN [total |-> IntText(0), avg |-> TenthsText(0), best |-> IntText(0),
            trend |-> Dashes]
      ELSE StatsTexts(includedRounds)

updateAllCoursesStats(rs) ==
  StatsTexts(SelectSeq(rs, LAMBDA r : r.includeInHandicap))

\* The regulation view without its test of the course type
updateRegulationStats_AnyCourse(rs) ==
  StatsTexts(SelectSeq(rs, LAMBDA r : r.includeInHandicap))

updateRegulationStats(rs) ==
  StatsTexts(SelectSeq(rs, LAMBDA r :
               r.includeInHandicap /\ r.courseType = "regulation"))

\* updateHandicapDisplay: overallHandicapResult and regulationHandicapResult
HandicapResults(rs) ==
  [called |-> TRUE,
   overall |-> calculateHandicap(rs, FALSE),
   regulation |-> calculateHandicap(rs, TRUE)]

\* updateDisplay: the texts after updateHandicapDisplay, which got res from
\* calculateHandicap, and updateStats
updateDisplay(rs, res) ==
  [overall |-> HandicapTexts(res.overall),
   regulation |-> HandicapTexts(res.regulation),
   allStats |-> updateAllCoursesStats(rs),
   regStats |-> updateRegulationStats(rs)]

----------------------------------------------------------------------------
(* Strings.  The texts of the model come from a fixed universe; length,    *)
(* lower case and the order of "<" on strings are tabulated for it.        *)

StrLength(s) ==
  CASE s = "" -> 0
    [] s = "A" -> 1
    [] s = "Zulu" -> 4
    [] s = "alpha" -> 5
    [] s = "Blue" -> 4
    [] s = "white" -> 5
    [] OTHER -> 9

ToLowerCase(s) ==
  CASE s = "A" -> "a"
    [] s = "Zulu" -> "zulu"
    [] s = "Blue" -> "blue"
    [] OTHER -> s

\* The place of a lower-case text in the order of "<" (code units).
StrRank(s) ==
  CASE s = "" -> 0
    [] s = "a" -> 1
    [] s = "alpha" -> 2
    [] s = "blue" -> 3
    [] s = "executive" -> 4
    [] s = "par3" -> 5
    [] s = "practice" -> 6
    [] s = "regulation" -> 7
    [] s = "white" -> 8
    [] s = "zulu" -> 9
    [] OTHER -> 10

----------------------------------------------------------------------------
(* Numbers read from text: parseInt / parseFloat give a number or NaN *)

Num(v) == [nan |-> FALSE, v |-> v]
NaN == [nan |-> TRUE, v |-> 0]

\* !x for the result of parseInt / parseFloat
Falsy(x) == x.nan \/ x.v = 0

\* parseInt(text) || 0
OrZero(x) == IF Falsy(x) THEN 0 ELSE x.v

----------------------------------------------------------------------------
(* addRound: validation and the round it builds *)

Failed(message) == [ok |-> FALSE, error |-> message]

\* The test of the earlier version: every field present, nothing more
validateInputs_PresenceOnly(form) ==
  IF \/ form.date = 0 \/ form.course = ""
     \/ Falsy(form.holes) \/ Falsy(form.score) \/ Falsy(form.par)
     \/ Falsy(form.rating) \/ Falsy(form.slope) \/ form.courseType = ""
  THEN Failed("Please fill in all fields")
  ELSE [ok |-> TRUE,
        inputs |-> [date |-> form.date, course |-> form.course,
                    tees |-> form.tees, holes |-> form.holes.v,
                    score |-> form.score.v, par |-> form.par.v,
                    rating |-> form.rating.v, slope |-> form.slope.v,
                    courseType |-> form.courseType]]

\* validateInputs without a test of the slope's value
validateInputs_NoSlopeCheck(form) ==
  IF \/ form.date = 0 \/ form.course = "" \/ form.tees = ""
     \/ Falsy(form.holes) \/ Falsy(form.score) \/ Falsy(form.par)
     \/ Falsy(form.rating) \/ form.slope.nan \/ form.courseType = ""
  THEN Failed("Please fill in all fields")
  ELSE IF StrLength(form.course) < 2
  THEN Failed("Course name must be at least 2 characters")
  ELSE IF StrLength(form.tees) < 1
  THEN Failed("Tees played must be specified")
  ELSE IF form.holes.v \notin {9, 18}
  THEN Failed("Holes must be 9 or 18")
  ELSE IF form.score.v <= 0 \/ form.score.v > 200
  THEN Failed("Score must be between 1 and 200")
  ELSE IF form.par.v <= 0 \/ form.par.v > 100
  THEN Failed("Par must be between 1 and 100")
  ELSE IF form.rating.v <= 0 \/ form.rating.v > 1500
  THEN Failed("Course rating must be between 1 and 150")
  ELSE [ok |-> TRUE,
        inputs |-> [date |-> form.date, course |-> form.course,
                    tees |-> form.tees, holes |-> form.holes.v,
                    score |-> form.score.v, par |-> form.par.v,
                    rating |-> form.rating.v, slope |-> form.slope.v,
                    courseType |-> form.courseType]]

\* validateInputs, on the form as parsed by its first lines: date, course,
\* tees and courseType are texts (date a day number, 0 for the empty text),
\* holes, score, par, rating, slope what parseInt / parseFloat gave.
validateInputs(form) ==
  IF \/ form.date = 0 \/ form.course = "" \/ form.tees = ""
     \/ Falsy(form.holes) \/ Falsy(form.score) \/ Falsy(form.par)
     \/ Falsy(form.rating) \/ Falsy(form.slope) \/ form.courseType = ""
  THEN Failed("Please fill in all fields")
  ELSE IF StrLength(form.course) < 2
  THEN Failed("Course name must be at least 2 characters")
  ELSE IF StrLength(form.tees) < 1
  THEN Failed("Tees played must be specified")
  ELSE IF form.holes.v \notin {9, 18}
  THEN Failed("Holes must be 9 or 18")
  ELSE IF form.score.v <= 0 \/ form.score.v > 200
  THEN Failed("Score must be between 1 and 200")
  ELSE IF form.par.v <= 0 \/ form.par.v > 100
  THEN Failed("Par must be between 1 and 100")
  ELSE IF form.rating.v <= 0 \/ form.rating.v > 1500
  THEN Failed("Course rating must be between 1 and 150")
  ELSE IF form.slope.v < 55 \/ form.slope.v > 155
  THEN Failed("Slope rating must be between 55 and 155")
  ELSE [ok |-> TRUE,
        inputs |-> [date |-> form.date, course |-> form.course,
                    tees |-> form.tees, holes |-> form.holes.v,
                    score |-> form.score.v, par |-> form.par.v,
                    rating |-> form.rating.v, slope |-> form.slope.v,
                    courseType |-> form.courseType]]

\* let adjScore = inputs.score; if (inputs.holes === 9) adjScore = score * 2
AdjScore(inputs) ==
  IF inputs.holes = 9 THEN inputs.score * 2 ELSE inputs.score

\* What a division by zero gives: Infinity, -Infinity or NaN (0 / 0). They
\* stand in the model as integers beyond every hundredth a form can give.
Infinity == 1000000000

NotANumber == Infinity + 1

NotFinite(numerator) ==
  IF numerator > 0 THEN Infinity
  ELSE IF numerator < 0 THEN -Infinity ELSE NotANumber

IsFinite(x) == x \notin {Infinity, -Infinity, NotANumber}

\* parseFloat((((adjScore - rating) * 113) / slope).toFixed(2)), in
\* hundredths; rating is in tenths. With slope = 0 the quotient, its
\* toFixed(2) text and the parseFloat of that text are Infinity, -Infinity
\* or NaN.
Differential_Truncated(adjScore, rating, slope) ==
  Floor((adjScore * 10 - rating) * 113 * 10, slope)

Differential(adjScore, rating, slope) ==
  IF slope = 0 THEN NotFinite(adjScore * 10 - rating)
  ELSE RoundDiv((adjScore * 10 - rating) * 113 * 10, slope)

\* The round of a version that doubles the rating of a nine-hole round too
NewRound_DoubledRating(inputs, includeInHandicap, id) ==
  LET rating == IF inputs.holes = 9 THEN inputs.rating * 2 ELSE inputs.rating
  IN  [id |-> id,
       date |-> inputs.date,
       course |-> inputs.course,
       tees |-> inputs.tees,
       courseType |-> inputs.courseType,
       includeInHandicap |-> includeInHandicap,
       holes |-> inputs.holes,
       score |-> inputs.score,
       par |-> inputs.par,
       adjScore |-> AdjScore(inputs),
       rating |-> inputs.rating,
       slope |-> inputs.slope,
       differential |-> Differential(AdjScore(inputs), rating, inputs.slope)]

\* const round = {...} in addRound
NewRound(inputs, includeInHandicap, id) ==
  [id |-> id,
   date |-> inputs.date,
   course |-> inputs.course,
   tees |-> inputs.tees,
   courseType |-> inputs.courseType,
   includeInHandicap |-> includeInHandicap,
   holes |-> inputs.holes,
   score |-> inputs.score,
   par |-> inputs.par,
   adjScore |-> AdjScore(inputs),
   rating |-> inputs.rating,
   slope |-> inputs.slope,
   differential |-> Differential(AdjScore(inputs), inputs.rating,
                                 inputs.slope)]

----------------------------------------------------------------------------
(* The remote sheet: every cell is text *)

\* The row the sheet keeps for a round sent as JSON: numbers as their digits,
\* the boolean as 'true' / 'false'.
ToRow(round) ==
  [id |-> round.id, date |-> round.date, course |-> round.course,
   tees |-> round.tees, courseType |-> round.courseType,
   includeInHandicap |-> IF round.includeInHandicap THEN "true" ELSE "false",
   holes |-> Num(round.holes), score |-> Num(round.score),
   par |-> Num(round.par), adjScore |-> Num(round.adjScore),
   rating |-> Num(round.rating), slope |-> Num(round.slope),
   differential |-> Num(round.differential)]

\* The conversion with includeInHandicap: round.includeInHandicap === 'true'
ConvertRow_OnlyTrueIncludes(row) ==
  [id |-> row.id, date |-> row.date, course |-> row.course,
   holes |-> OrZero(row.holes),
   score |-> OrZero(row.score),
   par |-> OrZero(row.par),
   adjScore |-> OrZero(row.adjScore),
   rating |-> OrZero(row.rating),
   slope |-> OrZero(row.slope),
   differential |-> OrZero(row.differential),
   courseType |-> IF row.courseType = "" THEN "regulation"
                  ELSE row.courseType,
   includeInHandicap |-> row.includeInHandicap = "true",
   tees |-> row.tees]

\* data.map((round) => ...) in loadRoundsFromSheet, for one row
ConvertRow(row) ==
  [id |-> row.id, date |-> row.date, course |-> row.course,
   holes |-> OrZero(row.holes),
   score |-> OrZero(row.score),
   par |-> OrZero(row.par),
   adjScore |-> OrZero(row.adjScore),
   rating |-> OrZero(row.rating),
   slope |-> OrZero(row.slope),
   differential |-> OrZero(row.differential),
   courseType |-> IF row.courseType = "" THEN "regulation"
                  ELSE row.courseType,
   includeInHandicap |-> IF row.includeInHandicap = "false" THEN FALSE
                         ELSE TRUE,
   tees |-> row.tees]

loadRoundsFromSheet(data) ==
  [i \in 1..Len(data) |-> ConvertRow(data[i])] \o <<>>

----------------------------------------------------------------------------
(* Sorting the round list *)

\* rounds.sort((a, b) => new Date(b.date) - new Date(a.date)): newest first
SortByDateDesc(rs) ==
  StableSortByKey(rs, [i \in 1..Len(rs) |-> -(rs[i].date)])

Columns ==
  {"date", "course", "tees", "type", "holes", "score", "par", "adjScore",
   "differential", "includeInHandicap"}

\* valueA / valueB of sortTable's comparator, as an integer that orders alike
SortValue(r, column) ==
  CASE column = "date" -> r.date
    [] column = "course" -> StrRank(ToLowerCase(r.course))
    [] column = "tees" -> StrRank(ToLowerCase(r.tees))
    [] column = "type" ->
         StrRank(ToLowerCase(IF r.courseType = "" THEN "regulation"
                             ELSE r.courseType))
    [] column = "holes" -> r.holes
    [] column = "score" -> r.score
    [] column = "par" -> r.par
    [] column = "adjScore" -> r.adjScore
    [] column = "differential" -> r.differential
    [] column = "includeInHandicap" -> IF r.includeInHandicap THEN 1 ELSE 0
    [] OTHER -> 0

\* currentSort after sortTable(column)
NextSort(sort, column) ==
  IF sort.column = column
  THEN [column |-> column,
        direction |-> IF sort.direction = "asc" THEN "desc" ELSE "asc"]
  ELSE [column |-> column,
        direction |-> IF column = "date" THEN "desc" ELSE "asc"]

\* rounds.sort(...) in sortTable, under the direction just set
SortRounds(rs, column, direction) ==
  StableSortByKey(rs, [i \in 1..Len(rs) |->
                         IF direction = "asc" THEN SortValue(rs[i], column)
                         ELSE -SortValue(rs[i], column)])

----------------------------------------------------------------------------
(* Bounds and inputs *)

MaxOps == 2        \* user operations in one behaviour of Spec
FirstNow == 100    \* Date.now() at page load; stored ids are older

\* A round as an earlier session's addRound built and saved it.
Played(id, date, course, tees, courseType, include, holes, score, par, rating, slope) ==
  NewRound([date |-> date, course |-> course, tees |-> tees, holes |-> holes,
            score |-> score, par |-> par, rating |-> rating, slope |-> slope,
            courseType |-> courseType], include, id)

SmallRounds ==
  << Played(1, 1, "Zulu", "Blue", "regulation", TRUE, 18, 90, 72, 712, 125),
     Played(2, 3, "alpha", "white", "executive", TRUE, 9, 48, 36, 355, 115),
     Played(3, 2, "Zulu", "white", "regulation", FALSE, 18, 85, 72, 712, 125) >>

SmallSheet == [i \in 1..Len(SmallRounds) |-> ToRow(SmallRounds[i])]

\* What the page finds when it loads: the remote sheet, and localStorage
\* 'golfRounds' as the browser-storage version left it (<<>> when absent).
InitialStores ==
  { [sheet |-> <<>>, localBackup |-> <<>>],
    [sheet |-> SmallSheet, localBackup |-> << <<SmallRounds[1]>> >>] }

Form(date, course, tees, holes, score, par, rating, slope, courseType) ==
  [date |-> date, course |-> course, tees |-> tees, holes |-> holes,
   score |-> score, par |-> par, rating |-> rating, slope |-> slope,
   courseType |-> courseType]

Forms ==
  { Form(4, "Zulu", "Blue", Num(18), Num(90), Num(72), Num(712), Num(125),
         "regulation"),
    Form(2, "alpha", "white", Num(9), Num(48), Num(36), Num(355), Num(115),
         "executive"),
    Form(4, "alpha", "Blue", Num(18), NaN, Num(72), Num(712), Num(125),
         "regulation") }

IncludeChoices == {"true", "false"}

\* The table headers clicked in Spec
ClickedColumns == {"date", "course", "adjScore", "includeInHandicap"}

----------------------------------------------------------------------------
(* State *)

\* The text an element has from the page's markup (index.html is not among
\* the sources).
Markup == Text("markup")

InitialDisplay ==
  [overall |-> [handicap |-> Text("Loading..."), roundsUsed |-> Markup],
   regulation |-> [handicap |-> Markup, roundsUsed |-> Markup],
   allStats |-> [total |-> Markup, avg |-> Markup, best |-> Markup,
                 trend |-> Markup],
   regStats |-> [total |-> Markup, avg |-> Markup, best |-> Markup,
                 trend |-> Markup]]

NoResult == [called |-> FALSE]

NoRound == [id |-> 0]

\* A handler suspended in retryOperation: the call it makes, the attempt it
\* is at, whether the request is out ("inflight") or the handler sleeps
\* RETRY_DELAY before the next one ("delay").
\* round is the round as the handler had it at its call; body is the round
\* as the attempt in flight serialised it.
Op(kind, id, round) ==
  [kind |-> kind, attempt |-> 1, phase |-> "inflight", id |-> id,
   round |-> round, body |-> round]

InitWith(stores, ops) ==
  /\ rounds = <<>>
  /\ currentSort = [column |-> "date", direction |-> "desc"]
  /\ display = InitialDisplay
  /\ results = NoResult
  /\ \E store \in stores :
       /\ sheet = store.sheet
       /\ localBackup = store.localBackup
  /\ pending = << Op("load", 0, NoRound) >>
  /\ now = FirstNow
  /\ budget = ops
  /\ lastAlert = ""
  /\ deleted = {}

Init == InitWith(InitialStores, MaxOps)

Remove(s, i) == [j \in 1..(Len(s) - 1) |-> IF j < i THEN s[j] ELSE s[j + 1]]

HasId(rs, id) == \E i \in 1..Len(rs) : rs[i].id = id

\* rounds.find((r) => r.id === roundId): the place of the first such round
FindIndex(rs, id) ==
  CHOOSE i \in 1..Len(rs) :
    rs[i].id = id /\ \A j \in 1..(i - 1) : rs[j].id # id

\* The flip, with the differential computed anew from the score as entered
FlipFound_Recalculates(rs, id) ==
  LET k == FindIndex(rs, id)
  IN  [rs EXCEPT ![k].includeInHandicap = ~@,
                 ![k].differential =
                   Differential(rs[k].score, rs[k].rating, rs[k].slope)]

\* round.includeInHandicap = false on the round found
FlipFound_Excludes(rs, id) ==
  [rs EXCEPT ![FindIndex(rs, id)].includeInHandicap = FALSE]

\* round.includeInHandicap = !round.includeInHandicap on the round found
FlipFound(rs, id) ==
  [rs EXCEPT ![FindIndex(rs, id)].includeInHandicap = ~@]

\* rounds.splice(index) for rounds.splice(index, 1): the rounds after the
\* one found go with it
WithoutId_Splice(rs, id) ==
  IF HasId(rs, id) THEN SubSeq(rs, 1, FindIndex(rs, id) - 1) ELSE rs

\* rounds.filter((round) => round.id !== id)
WithoutId(rs, id) == SelectSeq(rs, LAMBDA r : r.id # id)

\* updateDisplay() on the list rs
Refresh(rs) ==
  LET res == HandicapResults(rs)
  IN  /\ results' = res
      /\ display' = updateDisplay(rs, res)

\* showError(error, context): the message it alerts
showError(message, context) ==
  CASE message = "Please fill in all fields" ->
         "Please fill in all fields before adding the round."
    [] message = "Tees played must be specified" ->
         "Please specify which tees you played from."
    [] message = "Failed to save round to sheet" ->
         "Unable to save your round. Please check your internet connection and try again."
    [] message = "Failed to load rounds from sheet" ->
         "Unable to load your golf rounds. Please check your internet connection."
    [] message = "Failed to delete round from sheet" ->
         "Unable to delete the round. Please try again."
    [] message = "Failed to update round in sheet" ->
         "Unable to update the round. Please try again."
    [] OTHER -> context

----------------------------------------------------------------------------
(* Handlers up to their first await *)

\* addRound were it to push the round before the save is awaited
AddRound_Optimistic(form, includeText) ==
  /\ budget > 0
  /\ \A i \in 1..Len(pending) : pending[i].kind # "save"
  /\ LET v == validateInputs(form)
     IN  IF v.ok
         THEN LET round == NewRound(v.inputs, includeText = "true", now)
                  added == SortByDateDesc(Append(rounds, round))
              IN  /\ pending' = Append(pending, Op("save", now, round))
                  /\ rounds' = added
                  /\ Refresh(added)
                  /\ now' = now + 1
                  /\ lastAlert' = ""
         ELSE /\ lastAlert' = showError(v.error, "Adding round")
              /\ UNCHANGED <<pending, now, rounds, display, results>>
  /\ budget' = budget - 1
  /\ UNCHANGED <<currentSort, sheet, localBackup, deleted>>

\* addRound. The Add button is disabled while an addRound is suspended.
AddRound(form, includeText) ==
  /\ budget > 0
  /\ \A i \in 1..Len(pending) : pending[i].kind # "save"
  /\ LET v == validateInputs(form)
     IN  IF v.ok
         THEN /\ pending' =
                   Append(pending,
                          Op("save", now,
                             NewRound(v.inputs, includeText = "true", now)))
              \* the save takes more than a millisecond: the next id is later
              /\ now' = now + 1
              /\ lastAlert' = ""
         ELSE /\ lastAlert' = showError(v.error, "Adding round")
              /\ UNCHANGED <<pending, now>>
  /\ budget' = budget - 1
  /\ UNCHANGED <<rounds, currentSort, display, results, sheet, localBackup,
                 deleted>>

\* deleteRound(id): confirm() answers confirmed
DeleteRound(id, confirmed) ==
  /\ budget > 0
  /\ pending' = IF confirmed THEN Append(pending, Op("delete", id, NoRound))
                ELSE pending
  /\ budget' = budget - 1
  /\ lastAlert' = ""
  /\ UNCHANGED <<rounds, currentSort, display, results, sheet, localBackup,
                 now, deleted>>

\* toggleHandicapInclusion(roundId)
ToggleHandicapInclusion(roundId) ==
  /\ budget > 0
  /\ IF HasId(rounds, roundId)
     THEN LET flipped == FlipFound(rounds, roundId)
          IN  /\ rounds' = flipped
              /\ Refresh(flipped)
              /\ pending' =
                   Append(pending,
                          Op("update", roundId,
                             flipped[FindIndex(flipped, roundId)]))
     ELSE UNCHANGED <<rounds, display, results, pending>>
  /\ budget' = budget - 1
  /\ lastAlert' = ""
  /\ UNCHANGED <<currentSort, sheet, localBackup, now, deleted>>

\* sortTable(column)
sortTable(column) ==
  /\ currentSort' = NextSort(currentSort, column)
  /\ rounds' = SortRounds(rounds, column, currentSort'.direction)
  /\ lastAlert' = ""
  /\ UNCHANGED <<display, results, sheet, localBackup, pending, now, deleted>>

SortTable(column) ==
  /\ budget > 0
  /\ budget' = budget - 1
  /\ sortTable(column)

----------------------------------------------------------------------------
(* The remote calls settle.  outcome is what the attempt came to:          *)
(*   "ok"      the service did the request and the response was ok         *)
(*   "failed"  the service did not do it; fetch rejected or !response.ok   *)
(*   "lost"    the service did it, the response never arrived              *)

\* The outcomes drawn in Spec
Outcomes == {"ok", "failed"}

InFlight(i, kind) ==
  /\ i \in 1..Len(pending)
  /\ pending[i].kind = kind
  /\ pending[i].phase = "inflight"

\* The test of a loop that gives up one attempt later: attempt > maxRetries
LastAttempt_OneMore(op) == op.attempt = MAX_RETRIES + 1

\* retryOperation's catch: the last attempt rethrows
LastAttempt(op) == op.attempt = MAX_RETRIES

\* retryOperation's catch, earlier attempts: sleep RETRY_DELAY, then attempt
\* again. The requests of load, save and delete read nothing when they are
\* sent again, so the sleep and the new request are one step for them.
Again(i) == [pending EXCEPT ![i].attempt = @ + 1]

\* The same for updateRoundInSheet(round), which serialises the round object
\* anew when the sleep is over (RetryFires).
Sleep(i) == [pending EXCEPT ![i].phase = "delay"]

\* loadRounds without the localStorage fallback
LoadResponds_NoFallback(i, outcome) ==
  /\ InFlight(i, "load")
  /\ outcome \in {"ok", "failed"}
  /\ IF outcome = "ok"
     THEN LET loaded == SortByDateDesc(loadRoundsFromSheet(sheet))
          IN  /\ rounds' = loaded
              /\ Refresh(loaded)
              /\ pending' = Remove(pending, i)
     ELSE IF LastAttempt(pending[i])
     THEN /\ rounds' = <<>>
          /\ Refresh(<<>>)
          /\ pending' = Remove(pending, i)
     ELSE /\ pending' = Again(i)
          /\ UNCHANGED <<rounds, display, results>>
  /\ lastAlert' = ""
  /\ UNCHANGED <<currentSort, sheet, localBackup, now, budget, deleted>>

\* loadRounds, resumed by an attempt of loadRoundsFromSheet
LoadResponds(i, outcome) ==
  /\ InFlight(i, "load")
  /\ outcome \in {"ok", "failed"}
  /\ IF outcome = "ok"
     THEN LET loaded == SortByDateDesc(loadRoundsFromSheet(sheet))
          IN  /\ rounds' = loaded
              /\ Refresh(loaded)
              /\ pending' = Remove(pending, i)
     ELSE IF LastAttempt(pending[i])
     THEN LET fallback == IF localBackup # <<>>
                          THEN SortByDateDesc(localBackup[1])
                          ELSE <<>>
          IN  /\ rounds' = fallback
              /\ Refresh(fallback)
              /\ pending' = Remove(pending, i)
     ELSE /\ pending' = Again(i)
          /\ UNCHANGED <<rounds, display, results>>
  /\ lastAlert' = ""
  /\ UNCHANGED <<currentSort, sheet, localBackup, now, budget, deleted>>

\* addRound, resumed by an attempt of saveRoundToSheet
SaveResponds(i, outcome) ==
  /\ InFlight(i, "save")
  /\ sheet' = IF outcome \in {"ok", "lost"}
              THEN Append(sheet, ToRow(pending[i].body))
              ELSE sheet
  /\ IF outcome = "ok"
     THEN LET added == SortByDateDesc(Append(rounds, pending[i].round))
          IN  /\ rounds' = added
              /\ Refresh(added)
              /\ pending' = Remove(pending, i)
              /\ lastAlert' = ""
     ELSE IF LastAttempt(pending[i])
     THEN /\ pending' = Remove(pending, i)
          /\ lastAlert' = showError("Failed to save round to sheet",
                                    "Adding round")
          /\ UNCHANGED <<rounds, display, results>>
     ELSE /\ pending' = Again(i)
          /\ lastAlert' = ""
          /\ UNCHANGED <<rounds, display, results>>
  /\ UNCHANGED <<currentSort, localBackup, now, budget, deleted>>

\* deleteRound, resumed by an attempt of deleteRoundFromSheet
DeleteResponds(i, outcome) ==
  /\ InFlight(i, "delete")
  /\ sheet' = IF outcome \in {"ok", "lost"}
              THEN WithoutId(sheet, pending[i].id)
              ELSE sheet
  /\ IF outcome = "ok"
     THEN LET kept == WithoutId(rounds, pending[i].id)
          IN  /\ rounds' = kept
              /\ Refresh(kept)
              /\ pending' = Remove(pending, i)
              /\ lastAlert' = ""
     ELSE IF LastAttempt(pending[i])
     THEN /\ pending' = Remove(pending, i)
          /\ lastAlert' = showError("Failed to delete round from sheet",
                                    "Deleting round")
          /\ UNCHANGED <<rounds, display, results>>
     ELSE /\ pending' = Again(i)
          /\ lastAlert' = ""
          /\ UNCHANGED <<rounds, display, results>>
  /\ deleted' = IF outcome = "ok" THEN deleted \cup {pending[i].id}
                ELSE deleted
  /\ UNCHANGED <<currentSort, localBackup, now, budget>>

\* PATCH /id/{id} with data: round
Patched(rows, id, round) ==
  [k \in 1..Len(rows) |-> IF rows[k].id = id THEN ToRow(round) ELSE rows[k]]

\* toggleHandicapInclusion, resumed by an attempt of updateRoundInSheet
UpdateResponds(i, outcome) ==
  /\ InFlight(i, "update")
  /\ sheet' = IF outcome \in {"ok", "lost"}
              THEN Patched(sheet, pending[i].id, pending[i].body)
              ELSE sheet
  /\ IF outcome = "ok"
     THEN /\ pending' = Remove(pending, i)
          /\ lastAlert' = ""
          /\ UNCHANGED <<rounds, display, results>>
     ELSE IF LastAttempt(pending[i])
     THEN /\ pending' = Remove(pending, i)
          /\ lastAlert' = showError("Failed to update round in sheet",
                                    "Updating round")
          /\ IF HasId(rounds, pending[i].id)
             THEN LET reverted == FlipFound(rounds, pending[i].id)
                  IN  /\ rounds' = reverted
                      /\ Refresh(reverted)
             ELSE UNCHANGED <<rounds, display, results>>
     ELSE /\ pending' = Sleep(i)
          /\ lastAlert' = ""
          /\ UNCHANGED <<rounds, display, results>>
  /\ UNCHANGED <<currentSort, localBackup, now, budget, deleted>>

\* retryOperation after RETRY_DELAY, for updateRoundInSheet: the next
\* attempt, with the round object as it is by then.
RetryFires(i) ==
  /\ i \in 1..Len(pending)
  /\ pending[i].phase = "delay"
  /\ LET op == pending[i]
         body == IF HasId(rounds, op.id)
                 THEN rounds[FindIndex(rounds, op.id)]
                 ELSE op.body
     IN  pending' = [pending EXCEPT ![i] =
                       [op EXCEPT !.attempt = @ + 1, !.phase = "inflight",
                                  !.body = body]]
  /\ lastAlert' = ""
  /\ UNCHANGED <<rounds, currentSort, display, results, sheet, localBackup,
                 now, budget, deleted>>

----------------------------------------------------------------------------
(* Specifications *)

\* The ids the table's buttons carry
ListedIds == {rounds[i].id : i \in 1..Len(rounds)}

Slots == 1..Len(pending)

Next ==
  \/ \E form \in Forms, includeText \in IncludeChoices :
       AddRound(form, includeText)
  \/ \E id \in ListedIds, confirmed \in BOOLEAN : DeleteRound(id, confirmed)
  \/ \E id \in ListedIds : ToggleHandicapInclusion(id)
  \/ \E column \in ClickedColumns : SortTable(column)
  \/ \E i \in Slots, outcome \in Outcomes : LoadResponds(i, outcome)
  \/ \E i \in Slots, outcome \in Outcomes : SaveResponds(i, outcome)
  \/ \E i \in Slots, outcome \in Outcomes : DeleteResponds(i, outcome)
  \/ \E i \in Slots, outcome \in Outcomes : UpdateResponds(i, outcome)
  \/ \E i \in Slots : RetryFires(i)

Spec == Init /\ [][Next]_vars

\* Every request the page sends is answered or rejected, and every timer
\* of retryOperation fires.
Settles ==
  \/ \E i \in Slots, outcome \in Outcomes :
       \/ LoadResponds(i, outcome)
       \/ SaveResponds(i, outcome)
       \/ DeleteResponds(i, outcome)
       \/ UpdateResponds(i, outcome)
  \/ \E i \in Slots : RetryFires(i)

\* Weak fairness of Settles, WF_vars(Settles), with ENABLED <<Settles>>_vars
\* written out: a step of Settles is possible exactly when a call is pending.
FairSettles == []<>(pending = <<>>) \/ []<><<Settles>>_vars

SpecRetry == Init /\ [][Next]_vars /\ FairSettles

----------------------------------------------------------------------------
(* The computations on long histories.  A history is a sheet of n rounds   *)
(* saved by earlier sessions; the page has loaded it, and the user sorts   *)
(* the table by any column.                                                *)

MaxHistory == 21   \* rounds in the longest history
MaxClicks == 2     \* header clicks in one behaviour of SpecCalc

\* Round i of the history of one kind: "plain" has every round included and
\* on a regulation course, "mixed" has excluded rounds, other course types,
\* equal dates and equal differentials.
HistoryRound(i, kind) ==
  IF kind = "plain"
  THEN Played(i, i, IF i % 2 = 0 THEN "Zulu" ELSE "alpha", "Blue",
              "regulation", TRUE,
              IF i % 3 = 0 THEN 9 ELSE 18,
              IF i % 3 = 0 THEN 40 + ((i * 5) % 11) ELSE 78 + ((i * 7) % 23),
              IF i % 3 = 0 THEN 36 ELSE 72,
              690 + ((i * 13) % 40), 105 + ((i * 11) % 40))
  ELSE Played(i, (i + 1) \div 2, "Zulu", IF i % 2 = 0 THEN "Blue" ELSE "white",
              IF i % 4 = 0 THEN "executive"
              ELSE IF i % 7 = 0 THEN "par3" ELSE "regulation",
              i % 5 # 2, 18, 80 + ((i * 3) % 7), 72, 700, 113)

HistorySheet(n, kind) == [i \in 1..n |-> ToRow(HistoryRound(i, kind))]

Histories ==
  {HistorySheet(n, kind) : n \in 0..MaxHistory, kind \in {"plain", "mixed"}}

\* The page once loadRounds has read the history, before updateDisplay runs.
InitLoaded ==
  /\ sheet \in Histories
  /\ localBackup = <<>>
  /\ rounds = SortByDateDesc(loadRoundsFromSheet(sheet))
  /\ currentSort = [column |-> "date", direction |-> "desc"]
  /\ results = NoResult
  /\ display = InitialDisplay
  /\ pending = <<>>
  /\ now = FirstNow
  /\ budget = MaxClicks
  /\ lastAlert = ""
  /\ deleted = {}

\* updateDisplay() were calculateHandicap to sort the list itself,
\* rounds.sort(...), for the copy it sorts, [...handicapRounds].sort(...)
Recompute_SortsInPlace ==
  /\ rounds' = StableSortByKey(rounds, [i \in 1..Len(rounds) |->
                                          rounds[i].differential])
  /\ Refresh(rounds')
  /\ UNCHANGED <<currentSort, sheet, localBackup, pending, now, budget,
                 lastAlert, deleted>>

\* updateDisplay() on the list as it is ordered now
Recompute ==
  /\ Refresh(rounds)
  /\ UNCHANGED <<rounds, currentSort, sheet, localBackup, pending, now,
                 budget, lastAlert, deleted>>

NextCalc ==
  \/ \E column \in Columns : SortTable(column)
  \/ Recompute

SpecCalc == InitLoaded /\ [][NextCalc]_vars

----------------------------------------------------------------------------
(* The page over a history long enough for the trend *)

TrendRounds == 11

InitTrend ==
  InitWith({[sheet |-> HistorySheet(TrendRounds, "plain"),
             localBackup |-> <<>>]}, MaxOps)

SpecTrend == InitTrend /\ [][Next]_vars

----------------------------------------------------------------------------
(* SpecForms: the page over an empty sheet, the form filled in many ways *)

MaxAdds == 1    \* clicks on Add Round in one behaviour of SpecForms

\* The ratings and slopes entered together: the pairs of the 9-hole round
\* 48 / 35.5 / 115 and of the 18-hole round 90 / 71.2 / 125, the ends of
\* the ranges validateInputs accepts, and slopes just outside them.
RatingAndSlope ==
  { <<Num(355), Num(115)>>, <<Num(712), Num(125)>>, <<Num(1500), Num(55)>>,
    <<Num(355), Num(155)>>, <<Num(712), Num(0)>>, <<Num(712), Num(54)>>,
    <<Num(712), Num(156)>>, <<Num(1501), Num(125)>> }

WideForms ==
  { Form(4, "Zulu", "Blue", holes, score,
         IF holes = Num(9) THEN Num(36) ELSE Num(72), pair[1], pair[2],
         "regulation") :
      holes \in {Num(9), Num(18)},
      score \in {NaN, Num(1), Num(48), Num(90), Num(200), Num(201)},
      pair \in RatingAndSlope }
  \cup { Form(4, "Zulu", "Blue", Num(12), Num(90), Num(72), Num(712),
              Num(125), "regulation"),
         Form(0, "Zulu", "Blue", Num(18), Num(90), Num(72), Num(712),
              Num(125), "regulation"),
         Form(4, "", "Blue", Num(18), Num(90), Num(72), Num(712),
              Num(125), "regulation"),
         Form(4, "A", "Blue", Num(18), Num(90), Num(72), Num(712),
              Num(125), "regulation"),
         Form(4, "Zulu", "", Num(18), Num(90), Num(72), Num(712),
              Num(125), "regulation"),
         Form(4, "Zulu", "Blue", Num(18), Num(90), Num(72), Num(712),
              Num(125), ""),
         Form(4, "Zulu", "Blue", NaN, Num(90), Num(72), Num(712),
              Num(125), "regulation"),
         Form(4, "Zulu", "Blue", Num(18), Num(90), Num(0), Num(712),
              Num(125), "regulation"),
         Form(4, "Zulu", "Blue", Num(18), Num(90), Num(101), Num(712),
              Num(125), "regulation"),
         Form(4, "Zulu", "Blue", Num(18), Num(90), Num(72), NaN,
              Num(125), "regulation"),
         Form(4, "Zulu", "Blue", Num(18), Num(90), Num(72), Num(712),
              NaN, "regulation") }

InitForms == InitWith({[sheet |-> <<>>, localBackup |-> <<>>]}, MaxAdds)

NextForms ==
  \/ \E form \in WideForms, includeText \in IncludeChoices :
       AddRound(form, includeText)
  \/ \E i \in Slots, outcome \in Outcomes : LoadResponds(i, outcome)
  \/ \E i \in Slots, outcome \in Outcomes : SaveResponds(i, outcome)

SpecForms == InitForms /\ [][NextForms]_vars

----------------------------------------------------------------------------
(* SpecLoad: the page over a sheet some of whose cells no addRound wrote:  *)
(* a row whose holes cell is empty, a 9-hole row whose adjScore cell is    *)
(* empty.  The sheet is a spreadsheet its owner can edit.                  *)

EditedSheet ==
  << ToRow(SmallRounds[1]),
     [ToRow(SmallRounds[2]) EXCEPT !.adjScore = NaN],
     [ToRow(SmallRounds[3]) EXCEPT !.holes = NaN] >>

\* A sheet with cells left empty or typed by hand: no course type and no
\* inclusion in the first row, an upper-case FALSE in the second.
DefaultsSheet ==
  << [ToRow(SmallRounds[1]) EXCEPT !.courseType = "", !.includeInHandicap = ""],
     [ToRow(SmallRounds[2]) EXCEPT !.includeInHandicap = "FALSE"],
     ToRow(SmallRounds[3]) >>

InitLoad ==
  InitWith({[sheet |-> EditedSheet, localBackup |-> <<>>],
            [sheet |-> EditedSheet, localBackup |-> << <<SmallRounds[1]>> >>],
            [sheet |-> DefaultsSheet, localBackup |-> <<>>]},
           MaxOps)

SpecLoad == InitLoad /\ [][Next]_vars

----------------------------------------------------------------------------
(* SpecLossy: the page when a response can be lost after the service has   *)
(* done the request.                                                       *)

AllOutcomes == {"ok", "failed", "lost"}

InitLossy == InitWith({[sheet |-> <<>>, localBackup |-> <<>>]}, MaxOps)

\* toggleHandicapInclusion is a global function: SpecLossy and SpecReady call
\* it with the ids the table's buttons carry and with the ids of rounds that
\* were deleted.
ToggledIds == ListedIds \cup deleted

NextLossy ==
  \/ \E form \in Forms, includeText \in IncludeChoices :
       AddRound(form, includeText)
  \/ \E id \in ListedIds, confirmed \in BOOLEAN : DeleteRound(id, confirmed)
  \/ \E id \in ToggledIds : ToggleHandicapInclusion(id)
  \/ \E column \in ClickedColumns : SortTable(column)
  \/ \E i \in Slots, outcome \in AllOutcomes : LoadResponds(i, outcome)
  \/ \E i \in Slots, outcome \in AllOutcomes : SaveResponds(i, outcome)
  \/ \E i \in Slots, outcome \in AllOutcomes : DeleteResponds(i, outcome)
  \/ \E i \in Slots, outcome \in AllOutcomes : UpdateResponds(i, outcome)
  \/ \E i \in Slots : RetryFires(i)

SpecLossy == InitLossy /\ [][NextLossy]_vars

----------------------------------------------------------------------------
(* SpecReady: the page once loadRounds has read the sheet and shown it;    *)
(* the user works on the loaded list.                                      *)

InitReady ==
  /\ sheet = SmallSheet
  /\ localBackup = <<>>
  /\ rounds = SortByDateDesc(loadRoundsFromSheet(sheet))
  /\ currentSort = [column |-> "date", direction |-> "desc"]
  /\ results = HandicapResults(rounds)
  /\ display = updateDisplay(rounds, results)
  /\ pending = <<>>
  /\ now = FirstNow
  /\ budget = MaxOps
  /\ lastAlert = ""
  /\ deleted = {}

NextReady ==
  \/ \E form \in Forms, includeText \in IncludeChoices :
       AddRound(form, includeText)
  \/ \E id \in ListedIds, confirmed \in BOOLEAN : DeleteRound(id, confirmed)
  \/ \E id \in ToggledIds : ToggleHandicapInclusion(id)
  \/ \E column \in ClickedColumns : SortTable(column)
  \/ \E i \in Slots, outcome \in Outcomes : SaveResponds(i, outcome)
  \/ \E i \in Slots, outcome \in Outcomes : DeleteResponds(i, outcome)
  \/ \E i \in Slots, outcome \in Outcomes : UpdateResponds(i, outcome)
  \/ \E i \in Slots : RetryFires(i)

SpecReady == InitReady /\ [][NextReady]_vars

----------------------------------------------------------------------------
(* Eligibility, stated on the places of the list *)

\* The places of rs whose round counts for the variant
Eligible(rs, regulationOnly) ==
  {i \in 1..Len(rs) :
     /\ rs[i].includeInHandicap = TRUE
     /\ regulationOnly => rs[i].courseType = "regulation"}

\* The result the latest updateHandicapDisplay got for the variant
ResultOf(regulationOnly) ==
  IF regulationOnly THEN results.regulation ELSE results.overall

RECURSIVE SumOver(_, _)
SumOver(f, S) ==
  IF S = {} THEN 0
  ELSE LET i == CHOOSE j \in S : TRUE
       IN  f[i] + SumOver(f, S \ {i})

\* The sum of the k lowest values of d over the places E (1 <= k <= |E|):
\* with t the k-th lowest value, everything below t, and t for the rest.
LowestSum(d, E, k) ==
  LET below(t) == {i \in E : d[i] < t}
      upto(t) == {i \in E : d[i] <= t}
      t == CHOOSE x \in {d[i] : i \in E} :
             Cardinality(below(x)) < k /\ k <= Cardinality(upto(x))
  IN  SumOver(d, below(t)) + (k - Cardinality(below(t))) * t

Differentials(rs) == [i \in 1..Len(rs) |-> rs[i].differential]

----------------------------------------------------------------------------
(* C1: for a list with an eligible round, calculateHandicap returns the    *)
(* mean of the k lowest differentials of the eligible rounds times 0.96,   *)
(* k being the count it reports; and on the list as the user has reordered *)
(* it since, it returns what it returned before the reordering.            *)

HandicapIsScaledMeanOfLowest(regulationOnly) ==
  LET E == Eligible(rounds, regulationOnly)
      res == calculateHandicap(rounds, regulationOnly)
  IN  E # {} =>
        /\ ~res.isNull
        /\ res.roundsUsed \in 1..Cardinality(E)
        /\ res.handicap.den > 0
        \* handicap = (S / k) * 96 / 100, with 96 / 100 = 24 / 25
        /\ res.handicap.num * 25 * res.roundsUsed
             = 24 * LowestSum(Differentials(rounds), E, res.roundsUsed)
                  * res.handicap.den
        /\ results.called => res = ResultOf(regulationOnly)

C1_HandicapOrderIndependent ==
  \A regulationOnly \in BOOLEAN : HandicapIsScaledMeanOfLowest(regulationOnly)

\* Twenty rounds or more, several of them averaged, in an order that is
\* not the order of the dates.
C1_Witness ==
  /\ results.called
  /\ Len(rounds) >= 20
  /\ currentSort.column = "differential"
  /\ rounds # SortByDateDesc(rounds)
  /\ ~results.overall.isNull
  /\ results.overall.roundsUsed = 8
  /\ calculateHandicap(rounds, FALSE) = results.overall

----------------------------------------------------------------------------
(* C2: with n eligible rounds, roundsUsed is 8 for n >= 20, floor(0.4 n)   *)
(* for 10 <= n < 20, floor(0.3 n) for 5 <= n < 10 and 1 below 5, and       *)
(* totalHandicapRounds is n.                                               *)

\* floor(n * tenths / 10): the integer m with 10 m <= n * tenths < 10 (m + 1)
FloorOfTenths(n, tenths) ==
  CHOOSE m \in 0..n : 10 * m <= n * tenths /\ n * tenths < 10 * (m + 1)

TableRoundsUsed(n) ==
  IF n >= 20 THEN 8
  ELSE IF n >= 10 THEN FloorOfTenths(n, 4)
  ELSE IF n >= 5 THEN FloorOfTenths(n, 3)
  ELSE 1

C2_RoundsUsedTable ==
  \A regulationOnly \in BOOLEAN :
    LET n == Cardinality(Eligible(rounds, regulationOnly))
        res == ResultOf(regulationOnly)
    IN  (results.called /\ n >= 1) =>
          /\ ~res.isNull
          /\ res.totalHandicapRounds = n
          /\ res.roundsUsed = TableRoundsUsed(n)
          /\ n = 20 => res.roundsUsed = 8
          /\ n = 12 => res.roundsUsed = 4
          /\ n = 7 => res.roundsUsed = 2
          /\ n = 3 => res.roundsUsed = 1

\* Twelve eligible rounds overall, of which nine on regulation courses
C2_Witness ==
  /\ results.called
  /\ Cardinality(Eligible(rounds, FALSE)) = 12
  /\ results.overall.roundsUsed = 4
  /\ results.overall.totalHandicapRounds = 12
  /\ Cardinality(Eligible(rounds, TRUE)) = 9
  /\ results.regulation.roundsUsed = 2

----------------------------------------------------------------------------
(* C3: calculateHandicap returns null exactly when the list holds no       *)
(* eligible round, which covers the empty list and the list whose rounds   *)
(* are all excluded; in every other state it returns a result object with  *)
(* a handicap, a roundsUsed of at least one and the eligible count.        *)

IsResultObject(res) ==
  /\ DOMAIN res = {"isNull", "handicap", "roundsUsed", "totalHandicapRounds"}
  /\ ~res.isNull
  /\ res.handicap.den > 0
  /\ res.roundsUsed >= 1
  /\ res.totalHandicapRounds >= 1

C3_NullIffNoEligibleRound ==
  \A regulationOnly \in BOOLEAN :
    LET none == Eligible(rounds, regulationOnly) = {}
        now_ == calculateHandicap(rounds, regulationOnly)
        shown == ResultOf(regulationOnly)
    IN  /\ now_ = Null <=> none
        /\ ~none => IsResultObject(now_)
        /\ results.called => /\ shown = Null <=> none
                             /\ ~none => IsResultObject(shown)

\* Rounds in the list, every one of them excluded by the user: both variants
\* are null although the list is not empty.
C3_Witness ==
  /\ Len(rounds) >= 2
  /\ \A i \in 1..Len(rounds) : ~rounds[i].includeInHandicap
  /\ results.called
  /\ results.overall = Null
  /\ results.regulation = Null

----------------------------------------------------------------------------
(* C4: the rounds that count are exactly those with includeInHandicap      *)
(* true, and for the regulation variant those of them on a regulation      *)
(* course: the result is the one calculateHandicap gives on the list with  *)
(* every other round taken out, so no other round contributes to the       *)
(* handicap, to roundsUsed or to totalHandicapRounds.                      *)

RECURSIVE Keep(_, _)
Keep(rs, E) ==
  IF rs = <<>> THEN <<>>
  ELSE LET n == Len(rs)
           front == Keep(SubSeq(rs, 1, n - 1), E)
       IN  IF n \in E THEN Append(front, rs[n]) ELSE front

C4_OnlyEligibleRoundsCount ==
  \A regulationOnly \in BOOLEAN :
    LET E == Eligible(rounds, regulationOnly)
        res == ResultOf(regulationOnly)
    IN  results.called =>
          /\ res = calculateHandicap(Keep(rounds, E), FALSE)
          /\ ~res.isNull =>
               /\ res.totalHandicapRounds = Cardinality(E)
               /\ res.handicap.num * 25 * res.roundsUsed
                    = 24 * LowestSum(Differentials(rounds), E, res.roundsUsed)
                         * res.handicap.den

\* An excluded round, and a counted round off regulation courses, that
\* would each be among the averaged rounds of a variant if that variant
\* counted them: fewer rounds than the variant averages are as low.
C4_Witness ==
  /\ results.called
  /\ ~results.overall.isNull
  /\ ~results.regulation.isNull
  /\ \E i \in 1..Len(rounds) :
       /\ ~rounds[i].includeInHandicap
       /\ Cardinality({j \in Eligible(rounds, FALSE) :
                         rounds[j].differential <= rounds[i].differential})
            < results.overall.roundsUsed
  /\ \E i \in Eligible(rounds, FALSE) \ Eligible(rounds, TRUE) :
       Cardinality({j \in Eligible(rounds, TRUE) :
                      rounds[j].differential <= rounds[i].differential})
         < results.regulation.roundsUsed

----------------------------------------------------------------------------
(* The rounds addRound has built in this session: the one a suspended      *)
(* addRound is saving, and those in the list with an id of this session.   *)

Created ==
  {pending[i].round : i \in {j \in Slots : pending[j].kind = "save"}}
    \cup {rounds[i] : i \in {j \in 1..Len(rounds) : rounds[j].id >= FirstNow}}

\* d, in hundredths, is num / den rounded to 2 decimals (den > 0): no
\* hundredth is nearer to the quotient than d.
RoundedToHundredths(d, num, den) == 2 * Abs(num - d * den) <= den

\* ((adjScore - rating) * 113) / slope in hundredths, rating in tenths, is
\* (adjScore * 10 - rating) * 1130 / slope
Numerator(adjScore, rating) == (adjScore * 10 - rating) * 1130

----------------------------------------------------------------------------
(* C5: a round addRound builds with holes = 18 has adjScore = score and    *)
(* the differential ((score - rating) * 113) / slope rounded to 2          *)
(* decimals; score 90, rating 71.2, slope 125 give adjScore 90 and 17.00.  *)

C5_EighteenHoles ==
  \A r \in Created :
    r.holes = 18 =>
      /\ r.adjScore = r.score
      /\ RoundedToHundredths(r.differential, Numerator(r.score, r.rating),
                             r.slope)
      /\ (r.score = 90 /\ r.rating = 712 /\ r.slope = 125) =>
           (r.adjScore = 90 /\ r.differential = 1700)

\* The example round, saved and in the list
C5_Witness ==
  \E i \in 1..Len(rounds) :
    /\ rounds[i].id >= FirstNow
    /\ rounds[i].holes = 18
    /\ rounds[i].score = 90 /\ rounds[i].rating = 712 /\ rounds[i].slope = 125
    /\ rounds[i].differential = 1700
    /\ Len(sheet) = 1

----------------------------------------------------------------------------
(* C6: a round addRound builds with holes = 9 has adjScore = score * 2 and *)
(* the differential ((score * 2 - rating) * 113) / slope rounded to 2      *)
(* decimals, with the rating and the slope of the form, which are stored   *)
(* as entered; the round that reaches the list is that round.              *)

NineHoleRoundOf(form, r) ==
  /\ r.holes = 9
  /\ r.score = form.score.v
  /\ r.adjScore = form.score.v * 2
  /\ r.rating = form.rating.v
  /\ r.slope = form.slope.v
  /\ RoundedToHundredths(r.differential,
                         Numerator(form.score.v * 2, form.rating.v),
                         form.slope.v)

\* The forms validateInputs accepts that say nine holes
NineHoleForms ==
  {form \in WideForms \cup Forms :
     validateInputs(form).ok /\ form.holes.v = 9}

----------------------------------------------------------------------------
(* The two statistics views: the texts shown and the places of the list    *)
(* that pass the view's filter                                             *)

Views == {"all", "regulation"}

Shown(view) == IF view = "all" THEN display.allStats ELSE display.regStats

Passing(view) == Eligible(rounds, view = "regulation")

StatsShown(view) == Shown(view).total # Markup

AdjScores == [i \in 1..Len(rounds) |-> rounds[i].adjScore]

\* How many rounds of the places F are newer than the round at place i
NewerIn(F, i) == Cardinality({j \in F : rounds[j].date > rounds[i].date})

DatesDistinct(F) ==
  \A i, j \in F : rounds[i].date = rounds[j].date => i = j

----------------------------------------------------------------------------
(* C7: in every reachable state the trend of a view is '--' when fewer     *)
(* than 10 rounds pass its filter, and otherwise is the mean adjScore of   *)
(* the 5 newest passing rounds by date minus the mean adjScore of the next *)
(* 5 newest, with a '+' when positive.  (Stated where the dates of the     *)
(* passing rounds differ, so that "the 5 newest" is one set of rounds.)    *)

\* In tenths: (a - b) / 5 = 2 (a - b) / 10
TrendOfNewest(F) ==
  LET newest == {i \in F : NewerIn(F, i) < 5}
      next == {i \in F : NewerIn(F, i) >= 5 /\ NewerIn(F, i) < 10}
      gap == SumOver(AdjScores, newest) - SumOver(AdjScores, next)
  IN  SignedTenthsText(2 * gap, gap > 0)

C7_TrendOnNewestFirst ==
  \A view \in Views :
    LET F == Passing(view)
    IN  StatsShown(view) =>
          IF Cardinality(F) < 10
          THEN Shown(view).trend = Dashes
          ELSE DatesDistinct(F) => Shown(view).trend = TrendOfNewest(F)

----------------------------------------------------------------------------
(* C8: when no round passes a view's filter, the view shows the total 0    *)
(* and '--' for average, best and trend, never a number.                   *)

C8_NothingPassesNoNumbers ==
  \A view \in Views :
    (StatsShown(view) /\ Passing(view) = {}) =>
      /\ Shown(view).total = IntText(0)
      /\ Shown(view).avg = Dashes
      /\ Shown(view).best = Dashes
      /\ Shown(view).trend = Dashes

\* Rounds in the list, none of them passing either filter
C8_Witness ==
  /\ Len(rounds) >= 1
  /\ Passing("all") = {}
  /\ display.allStats.avg = Dashes
  /\ display.regStats.avg = Dashes
  /\ display.allStats.total = IntText(0)

----------------------------------------------------------------------------
(* C9: a view with a passing round shows as total the number of passing    *)
(* rounds, as average the mean adjScore of exactly those rounds (to one    *)
(* decimal) and as best the least adjScore among exactly those rounds.     *)

C9_StatsOverPassingRounds ==
  \A view \in Views :
    LET F == Passing(view)
        n == Cardinality(F)
        shown == Shown(view)
    IN  (StatsShown(view) /\ F # {}) =>
          /\ shown.total = IntText(n)
          /\ DOMAIN shown.avg = {"tenths"}
          \* no tenth is nearer to sum / n than the one shown
          /\ 2 * Abs(10 * SumOver(AdjScores, F) - shown.avg.tenths * n) <= n
          /\ DOMAIN shown.best = {"int"}
          /\ \E i \in F : shown.best.int = rounds[i].adjScore
          /\ \A i \in F : shown.best.int <= rounds[i].adjScore

\* The views differ, and a round that passes neither filter has a lower
\* adjScore than the best of both.
C9_Witness ==
  /\ StatsShown("all") /\ StatsShown("regulation")
  /\ Passing("regulation") # {}
  /\ Passing("regulation") # Passing("all")
  /\ display.allStats.total = IntText(Cardinality(Passing("all")))
  /\ display.regStats.total = IntText(Cardinality(Passing("regulation")))
  /\ display.regStats.avg # display.allStats.avg
  /\ \E i \in 1..Len(rounds) :
       /\ i \notin Passing("all")
       /\ rounds[i].adjScore < display.allStats.best.int

----------------------------------------------------------------------------
(* C10: when deleteRound(id) succeeds, the list loses the round with that  *)
(* id and no other: every other round stays, in its place among the rest   *)
(* and with every field as it was, and the handicaps and statistics of     *)
(* that step are computed from the list without the round.                 *)

C10_DeleteRemovesOnlyThatRound ==
  [][ \A i \in Slots :
        DeleteResponds(i, "ok") =>
          LET id == pending[i].id
              others == {j \in 1..Len(rounds) : rounds[j].id # id}
          IN  /\ \A j \in 1..Len(rounds') : rounds'[j].id # id
              /\ rounds' = Keep(rounds, others)
              /\ Len(rounds') >= Len(rounds) - 1
              /\ \A j \in others : \E k \in 1..Len(rounds') :
                   rounds'[k] = rounds[j]
              /\ results' = HandicapResults(rounds')
              /\ display' = updateDisplay(rounds', results')
    ]_vars

\* One of the three loaded rounds is gone from the list and from the sheet,
\* the other two are in the list as they were loaded.
C10_Witness ==
  /\ localBackup # <<>>
  /\ results.called
  /\ pending = <<>>
  /\ Len(sheet) = 2
  /\ \E gone \in 1..3 :
       /\ ~HasId(rounds, gone)
       /\ Len(rounds) = 2
       /\ \A i \in 1..2 : rounds[i] \in Range(SmallRounds)
       /\ results = HandicapResults(rounds)

----------------------------------------------------------------------------
(* C11: two toggles of the same round, the second on the list the first    *)
(* left, restore the output of calculateHandicap for both variants: a      *)
(* toggle flips the round and recomputes; the toggle of the same id on the *)
(* list it leaves gives back the list as it was and the results shown      *)
(* before; and the response that completes a toggle changes neither.       *)

----------------------------------------------------------------------------
(* C12: toggleHandicapInclusion flips the round in the list before any     *)
(* request is sent, and when the last attempt of its update fails, the     *)
(* round's includeInHandicap is again what it was before that toggle, and  *)
(* the user is alerted.  (The revert is stated for a toggle that is the    *)
(* only one still waiting on its round when it fails.)                     *)

\* includeInHandicap of the round a toggle of id finds
IncludedAt(rs, id) == rs[FindIndex(rs, id)].includeInHandicap

C12_FailedToggleReverts ==
  [][ /\ \A id \in ListedIds :
           ToggleHandicapInclusion(id) =>
             /\ IncludedAt(rounds', id) = ~IncludedAt(rounds, id)
             /\ sheet' = sheet
             /\ pending'[Len(pending')].attempt = 1
      /\ \A i \in Slots :
           ( /\ UpdateResponds(i, "failed")
             /\ LastAttempt(pending[i])
             /\ HasId(rounds, pending[i].id)
             /\ \A j \in Slots \ {i} :
                  ~(pending[j].kind = "update" /\ pending[j].id = pending[i].id) )
             => /\ IncludedAt(rounds', pending[i].id)
                     = ~pending[i].round.includeInHandicap
                /\ lastAlert' # ""
    ]_vars

----------------------------------------------------------------------------
(* C13: a form whose numbers leave the differential undefined (slope 0 or  *)
(* empty, score or rating empty) is answered with an alert: addRound       *)
(* starts no save and leaves list and sheet alone; and no round that       *)
(* addRound is saving, has put in the list, or has saved to the sheet has  *)
(* a differential of Infinity or NaN.                                      *)

UndefinedQuotientForms ==
  {form \in WideForms \cup Forms :
     Falsy(form.slope) \/ form.score.nan \/ form.rating.nan}

AllDifferentialsFinite ==
  /\ \A r \in Created : IsFinite(r.differential) /\ r.slope # 0
  /\ \A i \in 1..Len(rounds) : IsFinite(rounds[i].differential)
  /\ \A k \in 1..Len(sheet) :
       /\ ~sheet[k].differential.nan
       /\ IsFinite(sheet[k].differential.v)

C13_NoUndefinedDifferential ==
  [][ /\ \A form \in UndefinedQuotientForms, includeText \in IncludeChoices :
           AddRound(form, includeText) =>
             /\ lastAlert' # ""
             /\ pending' = pending
             /\ rounds' = rounds
             /\ sheet' = sheet
      /\ AllDifferentialsFinite'
    ]_vars

\* A form with slope 0 or an empty score has just been refused: the alert
\* is up, nothing waits to be saved, list and sheet are empty.
C13_Witness ==
  /\ lastAlert = "Please fill in all fields before adding the round."
  /\ budget < MaxAdds
  /\ \A i \in Slots : pending[i].kind # "save"
  /\ rounds = <<>>
  /\ sheet = <<>>

----------------------------------------------------------------------------
(* C14: every round in the list, whether addRound built it or loadRounds   *)
(* read it from the sheet or from the local backup, has holes 9 or 18.     *)

C14_HolesNineOrEighteen ==
  \A i \in 1..Len(rounds) : rounds[i].holes \in {9, 18}

----------------------------------------------------------------------------
(* C15: every round in the list, those decoded by loadRoundsFromSheet      *)
(* included, has adjScore = score when holes = 18 and adjScore = score * 2 *)
(* when holes = 9.                                                         *)

C15_AdjScoreFollowsHoles ==
  \A i \in 1..Len(rounds) :
    /\ rounds[i].holes = 18 => rounds[i].adjScore = rounds[i].score
    /\ rounds[i].holes = 9 => rounds[i].adjScore = rounds[i].score * 2

----------------------------------------------------------------------------
(* C16: no step of addRound, deleteRound, toggleHandicapInclusion or       *)
(* sortTable, nor any response to them, changes a field other than         *)
(* includeInHandicap of a round that is in the list: a round that is still *)
(* in the list after the step has every other field, its id and its        *)
(* differential among them, as before.  (The response that settles the     *)
(* initial load replaces the list and is no step of those operations.)     *)

SameButInclusion(a, b) ==
  [a EXCEPT !.includeInHandicap = TRUE] = [b EXCEPT !.includeInHandicap = TRUE]

LoadSettles == \E i \in Slots, outcome \in AllOutcomes : LoadResponds(i, outcome)

C16_OnlyInclusionChanges ==
  [][ ~LoadSettles =>
        \A i \in 1..Len(rounds) : \A j \in 1..Len(rounds') :
          rounds'[j].id = rounds[i].id => SameButInclusion(rounds[i], rounds'[j])
    ]_vars

\* A toggle has failed for good and was undone, after the nine-hole round
\* was toggled or the table sorted: the three loaded rounds are in the list
\* with the fields they were loaded with.
C16_Witness ==
  /\ lastAlert = "Unable to update the round. Please try again."
  /\ Len(rounds) = 3
  /\ \A i \in 1..3 : \E k \in 1..3 : SameButInclusion(rounds[i], SmallRounds[k])
  /\ \A k \in 1..3 : HasId(rounds, k)

----------------------------------------------------------------------------
(* C17: in every reachable state no two rounds of the list have the same   *)
(* id, so that a toggle or a delete by id touches exactly one round.       *)

C17_IdsUnique ==
  \A i, j \in 1..Len(rounds) : rounds[i].id = rounds[j].id => i = j

----------------------------------------------------------------------------
(* C18: when the last attempt of the initial load fails, the page goes on: *)
(* the list becomes the localStorage backup, newest first, if there is     *)
(* one, and the empty list otherwise; updateDisplay runs on it; no alert   *)
(* is raised.                                                              *)

LoadGivesUp(i) == LoadResponds(i, "failed") /\ LastAttempt(pending[i])

FallsBack ==
  /\ rounds' = IF localBackup # <<>> THEN SortByDateDesc(localBackup[1])
               ELSE <<>>
  /\ results' = HandicapResults(rounds')
  /\ display' = updateDisplay(rounds', results')
  /\ lastAlert' = ""

----------------------------------------------------------------------------
(* C19: the 9-hole round with score 48, par 36, rating 35.5 and slope 115  *)
(* is stored with adjScore 96 and, the rating not doubled, with the        *)
(* differential ((96 - 35.5) * 113) / 115 rounded to 2 decimals.           *)

IsNineHoleExample(r) ==
  /\ r.holes = 9 /\ r.score = 48 /\ r.par = 36
  /\ r.rating = 355 /\ r.slope = 115

\* As claimed: that differential is 59.5
C19_NineHoleExampleIs5950 ==
  \A r \in Created :
    IsNineHoleExample(r) => (r.adjScore = 96 /\ r.differential = 5950)

\* Amended: 6836.5 / 115 = 59.4478..., stored as 59.45
C19_NineHoleExampleIs5945 ==
  \A r \in Created :
    IsNineHoleExample(r) =>
      /\ r.adjScore = 96
      /\ r.differential = 5945
      /\ RoundedToHundredths(5945, Numerator(96, 355), 115)

\* addRound has built the example round and waits for its first save
C19_Witness ==
  /\ Len(pending) >= 1
  /\ \E i \in Slots :
       /\ pending[i].kind = "save"
       /\ pending[i].attempt = 1
       /\ IsNineHoleExample(pending[i].round)
       /\ pending[i].round.differential = 5945
  /\ sheet = <<>>

----------------------------------------------------------------------------
(* C20: addRound on a form with a missing field, with holes other than 9   *)
(* and 18, or with slope outside 55..155, score outside 1..200, par        *)
(* outside 1..100 or rating outside (0, 150] starts no save, leaves the    *)
(* list and the sheet as they are and shows an error; so every round       *)
(* addRound builds has its slope in 55..155.                               *)

Missing(x) == x.nan \/ x.v = 0

FailsValidation(form) ==
  \/ form.date = 0 \/ form.course = "" \/ form.tees = ""
  \/ form.courseType = ""
  \/ Missing(form.holes) \/ Missing(form.score) \/ Missing(form.par)
  \/ Missing(form.rating) \/ Missing(form.slope)
  \/ form.holes.v \notin {9, 18}
  \/ form.slope.v \notin 55..155
  \/ form.score.v \notin 1..200
  \/ form.par.v \notin 1..100
  \/ form.rating.v \notin 1..1500

RefusedForms == {form \in WideForms \cup Forms : FailsValidation(form)}

C20_InvalidFormGoesNowhere ==
  [][ /\ \A form \in RefusedForms, includeText \in IncludeChoices :
           AddRound(form, includeText) =>
             /\ pending' = pending
             /\ rounds' = rounds
             /\ sheet' = sheet
             /\ lastAlert' # ""
      /\ \A r \in Created' : r.slope \in 55..155
    ]_vars

\* A form with a number out of range has just been refused
C20_Witness ==
  /\ lastAlert = "Adding round"
  /\ budget < MaxAdds
  /\ pending = <<>>
  /\ rounds = <<>>
  /\ sheet = <<>>

----------------------------------------------------------------------------
(* C21: computing the handicaps and the statistics leaves the round list   *)
(* as it was, contents and order; the results and texts of the step are    *)
(* those of that list, each variant computed by itself from it, and the    *)
(* same calls on the list the step leaves return them again.               *)

----------------------------------------------------------------------------
(* C22: the list a successful load leaves has, for every row of the sheet, *)
(* a round of that id whose courseType is 'regulation' when the row's cell *)
(* is empty and the cell's text otherwise, and whose includeInHandicap is  *)
(* false when the row's cell is exactly 'false' and true otherwise.        *)

DecodedFrom(r, row) ==
  /\ r.id = row.id
  /\ row.courseType = "" => r.courseType = "regulation"
  /\ row.courseType # "" => r.courseType = row.courseType
  /\ row.includeInHandicap = "false" => r.includeInHandicap = FALSE
  /\ row.includeInHandicap # "false" => r.includeInHandicap = TRUE

C22_LoadDefaults ==
  [][ \A i \in Slots :
        LoadResponds(i, "ok") =>
          /\ Len(rounds') = Len(sheet)
          /\ \A k \in 1..Len(sheet) :
               \E j \in 1..Len(rounds') : DecodedFrom(rounds'[j], sheet[k])
    ]_vars

\* The sheet with the empty cells and the upper-case FALSE is loaded: rounds
\* 1 and 2 count, round 1 on a regulation course; round 3, whose cell is
\* 'false', does not.
C22_Witness ==
  /\ sheet = DefaultsSheet
  /\ pending = <<>>
  /\ Len(rounds) = 3
  /\ \A j \in 1..3 :
       /\ rounds[j].id = 1 =>
            rounds[j].includeInHandicap /\ rounds[j].courseType = "regulation"
       /\ rounds[j].id = 2 =>
            rounds[j].includeInHandicap /\ rounds[j].courseType = "executive"
       /\ rounds[j].id = 3 => ~rounds[j].includeInHandicap

----------------------------------------------------------------------------
(* C23: retryOperation makes at most MAX_RETRIES attempts and ends.  An    *)
(* attempt that succeeds ends the call with no further attempt; a failed   *)
(* attempt before the last is followed by the next attempt, for an update  *)
(* after the sleep; the failure of the last attempt ends the call in the   *)
(* caller's catch, which alerts (loadRounds falls back without an alert);  *)
(* and every call that was started ends.                                   *)

Responds(i, outcome) ==
  \/ LoadResponds(i, outcome)
  \/ SaveResponds(i, outcome)
  \/ DeleteResponds(i, outcome)
  \/ UpdateResponds(i, outcome)

SameCall(a, b) == a.kind = b.kind /\ a.id = b.id /\ a.round = b.round

RetryStep ==
  \A i \in Slots :
    /\ Responds(i, "ok") => pending' = Remove(pending, i)
    /\ (Responds(i, "failed") /\ pending[i].attempt < MAX_RETRIES) =>
         /\ Len(pending') = Len(pending)
         /\ \A j \in Slots \ {i} : pending'[j] = pending[j]
         /\ SameCall(pending'[i], pending[i])
         /\ IF pending[i].kind = "update"
            THEN /\ pending'[i].phase = "delay"
                 /\ pending'[i].attempt = pending[i].attempt
            ELSE /\ pending'[i].phase = "inflight"
                 /\ pending'[i].attempt = pending[i].attempt + 1
    /\ (Responds(i, "failed") /\ pending[i].attempt = MAX_RETRIES) =>
         /\ pending' = Remove(pending, i)
         /\ pending[i].kind # "load" => lastAlert' # ""
    /\ RetryFires(i) =>
         /\ SameCall(pending'[i], pending[i])
         /\ pending'[i].phase = "inflight"
         /\ pending'[i].attempt = pending[i].attempt + 1

C23_RetryBoundedAndEnds ==
  /\ [](\A i \in Slots : pending[i].attempt \in 1..MAX_RETRIES)
  /\ [][RetryStep]_vars
  /\ <>[](pending = <<>>)

\* An update is at its last attempt, after two failures and two sleeps
C23_Witness ==
  /\ Len(pending) = 1
  /\ pending[1].kind = "update"
  /\ pending[1].phase = "inflight"
  /\ pending[1].attempt = MAX_RETRIES

----------------------------------------------------------------------------
(* C24: addRound and deleteRound change the list only when their request   *)
(* has succeeded.  The steps up to the request leave the list as it is; a  *)
(* declined confirmation sends nothing; a save that succeeded puts the     *)
(* round, whose row the sheet then has, into the list, and a save still    *)
(* waiting has no round in the list; a delete that succeeded takes the     *)
(* round, whose row the sheet has lost, out of the list; a failed attempt, *)
(* the last included, leaves the list exactly as it is.                    *)

SheetHasId(rows, id) == \E k \in 1..Len(rows) : rows[k].id = id

C24_NotOptimistic ==
  [][ /\ \A form \in Forms, includeText \in IncludeChoices :
           AddRound(form, includeText) => rounds' = rounds /\ sheet' = sheet
      /\ \A id \in ListedIds, confirmed \in BOOLEAN :
           DeleteRound(id, confirmed) =>
             /\ rounds' = rounds
             /\ sheet' = sheet
             /\ ~confirmed => pending' = pending
      /\ \A i \in Slots :
           /\ InFlight(i, "save") => ~HasId(rounds, pending[i].id)
           /\ SaveResponds(i, "ok") =>
                /\ HasId(rounds', pending[i].id)
                /\ SheetHasId(sheet', pending[i].id)
                /\ Len(rounds') = Len(rounds) + 1
           /\ SaveResponds(i, "failed") => rounds' = rounds
           /\ DeleteResponds(i, "ok") =>
                /\ ~HasId(rounds', pending[i].id)
                /\ ~SheetHasId(sheet', pending[i].id)
           /\ DeleteResponds(i, "failed") => rounds' = rounds
    ]_vars

\* The last attempt of a delete has failed: the three loaded rounds are in
\* the list and in the sheet.
C24_Witness ==
  /\ lastAlert = "Unable to delete the round. Please try again."
  /\ pending = <<>>
  /\ sheet = SmallSheet
  /\ rounds = SortByDateDesc(SmallRounds)

----------------------------------------------------------------------------
(* C25: once no update of a round is waiting any more, the round's         *)
(* includeInHandicap in the list is the value its row of the sheet holds,  *)
(* whatever the updates of the toggles came to.                            *)

UpdateWaiting(id) ==
  \E i \in Slots : pending[i].kind = "update" /\ pending[i].id = id

RowIncluded(id) ==
  LET k == CHOOSE j \in 1..Len(sheet) : sheet[j].id = id
  IN  sheet[k].includeInHandicap # "false"

C25_SettledTogglesAgree ==
  \A id \in ListedIds :
    (SheetHasId(sheet, id) /\ ~UpdateWaiting(id)) =>
      IncludedAt(rounds, id) = RowIncluded(id)

----------------------------------------------------------------------------
(* C26: a round that addRound has put in the list stays in the list in     *)
(* every step but the one in which a deleteRound of its id succeeds.       *)

\* The ids addRound gave in this session; the stored rounds are older
AddedIds == {id \in ListedIds : id >= FirstNow}

DeleteSucceeds(id) ==
  \E i \in Slots : DeleteResponds(i, "ok") /\ pending[i].id = id

C26_AddedRoundStays ==
  [][ \A id \in AddedIds : HasId(rounds', id) \/ DeleteSucceeds(id) ]_vars

----------------------------------------------------------------------------
(* C27: when addRound settles, by a save that succeeded or by the failure  *)
(* of its last attempt, the sheet holds at most one row with the new       *)
(* round's id, and holds one exactly when the round is in the list.        *)

RowsWithId(rows, id) == {k \in 1..Len(rows) : rows[k].id = id}

SaveSettles(i, outcome) ==
  /\ SaveResponds(i, outcome)
  /\ outcome = "ok" \/ LastAttempt(pending[i])

C27_SavedAtMostOnce ==
  [][ \A i \in Slots, outcome \in AllOutcomes :
        SaveSettles(i, outcome) =>
          /\ Cardinality(RowsWithId(sheet', pending[i].id)) <= 1
          /\ HasId(rounds', pending[i].id)
               <=> RowsWithId(sheet', pending[i].id) # {}
    ]_vars

----------------------------------------------------------------------------
(* C28: the list is ordered by the column and in the direction currentSort *)
(* names: of two rounds, the one that comes first has the value that is    *)
(* not greater (ascending) or not smaller (descending).                    *)

InOrder(rs, sort) ==
  \A i, j \in 1..Len(rs) :
    i < j =>
      IF sort.direction = "asc"
      THEN SortValue(rs[i], sort.column) <= SortValue(rs[j], sort.column)
      ELSE SortValue(rs[i], sort.column) >= SortValue(rs[j], sort.column)

C28_OrderFollowsCurrentSort == InOrder(rounds, currentSort)

----------------------------------------------------------------------------
(* C29: for each view, the total the statistics give for the list is the   *)
(* totalHandicapRounds of calculateHandicap's result for that view, and 0  *)
(* exactly when the result is null; the regulation total is at most the    *)
(* all-courses total; and the totals on the page, once shown, are these.   *)

StatsOf(view) ==
  IF view = "all" THEN updateAllCoursesStats(rounds)
  ELSE updateRegulationStats(rounds)

TotalOf(res) == IF res.isNull THEN 0 ELSE res.totalHandicapRounds

C29_TotalsMatchResults ==
  /\ \A view \in Views :
       LET res == calculateHandicap(rounds, view = "regulation")
       IN  /\ StatsOf(view).total = IntText(TotalOf(res))
           /\ res.isNull <=> StatsOf(view).total = IntText(0)
           /\ StatsShown(view) =>
                /\ Shown(view).total = IntText(TotalOf(res))
                /\ TotalOf(ResultOf(view = "regulation")) = TotalOf(res)
  /\ StatsOf("regulation").total.int <= StatsOf("all").total.int

\* The only included regulation round has been toggled out: the regulation
\* view counts no round and has no handicap, the all-courses view counts one
C29_Witness ==
  /\ Len(rounds) = 3
  /\ results.called
  /\ results.regulation.isNull
  /\ ~results.overall.isNull
  /\ results.overall.totalHandicapRounds = 1
  /\ display.regStats.total = IntText(0)
  /\ display.allStats.total = IntText(1)

----------------------------------------------------------------------------
(* C30: no round has the id of a round whose deleteRound has succeeded.    *)
(* The failure of a toggle of such an id puts no round back and changes no *)
(* round; a toggle called with an id that is not in the list sends nothing *)
(* and changes nothing.                                                    *)

UpdateGivesUp(i) == UpdateResponds(i, "failed") /\ LastAttempt(pending[i])

C30_DeletedStaysGone ==
  [][ /\ \A id \in deleted' : ~HasId(rounds', id)
      /\ \A i \in Slots :
           (UpdateGivesUp(i) /\ ~HasId(rounds, pending[i].id)) =>
             rounds' = rounds
      /\ \A id \in ToggledIds \ ListedIds :
           ToggleHandicapInclusion(id) =>
             /\ pending' = pending
             /\ rounds' = rounds
             /\ sheet' = sheet
             /\ results' = results
    ]_vars

====
